---- MODULE Spec2Model ----
(***************************************************************************)
(* Model of bandit_simulations.py: the six arm-selection policies, the     *)
(* episode runner run_bandit_dynamic_alg and the main experiment loop.     *)
(*                                                                         *)
(* Numbers.  Probabilities and uniform draws are integers in thousandths   *)
(* (0.3 is 300).  An empirical mean successes/totals is the exact rational *)
(* <<successes, totals>>, compared by cross multiplication.  The two UCB   *)
(* scores need sqrt and log: each is an interval <<lo, hi>> in fixed point *)
(* (FixedScale = 10^6, 1.0 is 1000000) that holds the float the code       *)
(* computes, and UCB and UCB_bernoulli are the sets of arms np.argmax can  *)
(* return for scores in those intervals: one arm, unless two scores are    *)
(* closer than the intervals are wide.  A numpy bool is 1 (True) or 0      *)
(* (False).                                                                *)
(*                                                                         *)
(* Spec is the whole program: the module's load and the main loop.         *)
(* SpecEpisode is one call of run_bandit_dynamic_alg with any inputs,      *)
(* SpecNaive one long call with the naive policy, and SpecEps one call of  *)
(* epsilon_greedy taken step by step.  The sizes K, num_samples and        *)
(* number_experiments are those of the source scaled down.                 *)
(***************************************************************************)
EXTENDS Integers, Sequences, FiniteSets

\* ------------------------------------------------------------ sizes
\* number of arms (5 in the source, line 9)
K == 2
\* rounds per episode in the main loop (10000 in the source, line 8)
num_samples == 1
\* experiments of the main loop (100 in the source, line 10)
number_experiments == 2
\* rounds of the episodes of SpecEpisode
EpisodeRounds == 2
\* the reward rows of SpecNaive repeat with this period
NaivePeriod == 1
\* rounds a SpecNaive episode runs past the end of naive's exploration
NaiveExtra == 3
\* SpecEps: most arms, and the largest belief entry, of an enumerated input
MaxArmsEps == 3
MaxCountEps == 2

\* ------------------------------------------------------------ program constants
number_to_explore == 100
prior_a == 1
prior_b == 1
\* epsilon = 0.01 and the 1.96 of UCB_bernoulli, as <<numerator, denominator>>
epsilon == <<1, 100>>
z95 == <<196, 100>>
\* the scales of thousandths and of the fixed point
Mille == 10 * 100
FixedScale == Mille * Mille
\* the cap 0.25 of UCB's variance term, in fixed point
VarianceCap == FixedScale \div 4

\* ------------------------------------------------------------ input sets
\* true success probabilities np.random.rand can give, in thousandths
CtrValues == {300, 700}
\* uniform draws of the reward generator, in thousandths
RewardDraws == {0, 500, 999}
\* uniform draws of epsilon_greedy's np.random.rand(), in thousandths
EpsilonDraws == {0, 9, 10, 999}
\* values pm.rbeta can give for an arm (any point of (0,1) has positive density)
BetaSamples == {250, 750}
\* the epsilon arguments SpecEps calls epsilon_greedy with
EpsilonArgs == {<<0, 1>>, epsilon}

Arms == 0 .. (K - 1)
Policies == {"random", "naive", "epsilon_greedy", "UCB", "UCB_bernoulli", "thompson_sampling"}

\* ------------------------------------------------------------ numpy helpers
\* len(a) of a 0-based array
Length(a) == Cardinality(DOMAIN a)

\* a/b < c/d for positive denominators
RatLess(x, y) == x[1] * y[2] < y[1] * x[2]

RECURSIVE ArgmaxFrom(_, _, _)
ArgmaxFrom(v, j, best) ==
  IF j >= Length(v) THEN best
  ELSE ArgmaxFrom(v, j + 1, IF v[best] < v[j] THEN j ELSE best)
\* np.argmax of an integer array: the first index holding the maximum
argmax(v) == ArgmaxFrom(v, 1, 0)

RECURSIVE ArgmaxRatFrom(_, _, _)
ArgmaxRatFrom(v, j, best) ==
  IF j >= Length(v) THEN best
  ELSE ArgmaxRatFrom(v, j + 1, IF RatLess(v[best], v[j]) THEN j ELSE best)
\* np.argmax of an array of rationals
argmax_rat(v) == ArgmaxRatFrom(v, 1, 0)

RECURSIVE ArgminFrom(_, _, _)
ArgminFrom(v, j, best) ==
  IF j >= Length(v) THEN best
  ELSE ArgminFrom(v, j + 1, IF v[j] < v[best] THEN j ELSE best)
\* np.argmin of an integer array: the first index holding the minimum
argmin(v) == ArgminFrom(v, 1, 0)

\* estimated_beta_params.sum(1)
row_sums(params) == [k \in DOMAIN params |-> params[k][0] + params[k][1]]

\* v[lo] + ... + v[hi], summed by halves
RECURSIVE SumRange(_, _, _)
SumRange(v, lo, hi) ==
  IF lo > hi THEN 0
  ELSE IF lo = hi THEN v[lo]
  ELSE LET mid == (lo + hi) \div 2
       IN SumRange(v, lo, mid) + SumRange(v, mid + 1, hi)
\* estimated_beta_params.sum()
total_sum(params) == SumRange(row_sums(params), 0, Length(params) - 1)

\* np.cumsum of a 0-based array
cumsum(v) == [n \in DOMAIN v |-> SumRange(v, 0, n)]

\* successes/totals, per arm
estimated_means(params) == [k \in DOMAIN params |-> <<params[k][0], row_sums(params)[k]>>]

\* ------------------------------------------------------------ fixed point
\* A float the code computes is modelled by an interval <<lo, hi>> of
\* fixed-point values that holds it: the model does not fix the last digits
\* of np.log and np.sqrt, it bounds them.

\* the next decimal digits of a quotient, by long division: q is the quotient
\* so far and r the remainder
RECURSIVE ScaledDiv(_, _, _, _)
ScaledDiv(q, r, b, steps) ==
  IF steps = 0 THEN q
  ELSE ScaledDiv(10 * q + (10 * r) \div b, (10 * r) % b, b, steps - 1)
\* floor(a * 10^digits / b)
div_floor(a, b, digits) == ScaledDiv(a \div b, a % b, b, digits)

\* floor(a * b / FixedScale), by halves, to stay within 32 bits
fx_mul(a, b) ==
  LET a1 == a \div Mille
      a0 == a % Mille
      b1 == b \div Mille
      b0 == b % Mille
      cross == a1 * b0 + a0 * b1
  IN a1 * b1 + cross \div Mille + ((cross % Mille) * Mille + a0 * b0) \div FixedScale

RECURSIVE SqrtSearch(_, _, _)
SqrtSearch(n, lo, hi) ==
  IF lo >= hi THEN lo
  ELSE LET mid == (lo + hi + 1) \div 2
       IN IF mid * mid <= n THEN SqrtSearch(n, mid, hi) ELSE SqrtSearch(n, lo, mid - 1)
\* floor of the square root of a natural number
isqrt(n) == SqrtSearch(n, 0, 46340)

\* the next decimal digits of a square root, by the long-hand method: r is the
\* root so far and rem what is left of the radicand
RECURSIVE SqrtDigits(_, _, _)
SqrtDigits(r, rem, steps) ==
  IF steps = 0 THEN r
  ELSE LET cur == rem * 100
           d == CHOOSE d \in 0 .. 9 :
                  /\ (20 * r + d) * d <= cur
                  /\ d = 9 \/ (20 * r + d + 1) * (d + 1) > cur
       IN SqrtDigits(10 * r + d, cur - (20 * r + d) * d, steps - 1)
\* floor(sqrt(y * 10^4)): the root, in fixed point, of a value in units of 10^-8
fx_sqrt_of_fine(y) == SqrtDigits(isqrt(y), y - isqrt(y) * isqrt(y), 2)
\* floor(sqrt(y * 10^3)): the root, in fixed point, of a value in units of 10^-9
fx_sqrt_of_nano(y) == SqrtDigits(isqrt(y * 10), y * 10 - isqrt(y * 10) * isqrt(y * 10), 1)

\* interval operations on values >= 0
iv_add(x, y) == <<x[1] + y[1], x[2] + y[2]>>
iv_mul(x, y) == <<fx_mul(x[1], y[1]), fx_mul(x[2], y[2]) + 1>>
iv_div(x, n) == <<x[1] \div n, x[2] \div n + 1>>
iv_min(x, cap) == <<IF x[1] < cap THEN x[1] ELSE cap, IF x[2] < cap THEN x[2] ELSE cap>>
iv_widen(x) == <<x[1] - 1, x[2] + 1>>

RECURSIVE Pow2Below(_, _)
Pow2Below(t, p) == IF 2 * p > t THEN p ELSE Pow2Below(t, 2 * p)
RECURSIVE Log2Floor(_)
Log2Floor(t) == IF t < 2 THEN 0 ELSE 1 + Log2Floor(t \div 2)
\* np.log of an integer t >= 1: t = 2^e * m with 1 <= m < 2, ln t = e * ln 2 +
\* 2 * atanh(z) with z = (m-1)/(m+1) <= 1/3; the series is cut after the z^13
\* term and what is cut (below 10^-7) is inside the upper end; ln 2 is
\* 0.6931471805...
fx_log(t) ==
  LET p == Pow2Below(t, 1)
      z == IF t = p THEN <<0, 0>>
           ELSE <<div_floor(t - p, t + p, 6), div_floor(t - p, t + p, 6) + 1>>
      z2 == iv_mul(z, z)
      z3 == iv_mul(z2, z)
      z5 == iv_mul(z3, z2)
      z7 == iv_mul(z5, z2)
      z9 == iv_mul(z7, z2)
      z11 == iv_mul(z9, z2)
      z13 == iv_mul(z11, z2)
      series == iv_add(z, iv_add(iv_div(z3, 3), iv_add(iv_div(z5, 5), iv_add(iv_div(z7, 7),
                  iv_add(iv_div(z9, 9), iv_add(iv_div(z11, 11), iv_div(z13, 13)))))))
      e == Log2Floor(t)
  IN <<e * 693147 + (e * 1805) \div 10000 + 2 * series[1],
       e * 693147 + (e * 1806) \div 10000 + 1 + 2 * series[2] + 1>>

\* successes/totals of a row, in fixed point
fx_mean(row) ==
  <<div_floor(row[0], row[0] + row[1], 6), div_floor(row[0], row[0] + row[1], 6) + 1>>
\* estimated_means - estimated_means**2 of a row, which is
\* successes*failures/totals^2, in units of 10^-9
nano_variance(row) ==
  LET v == div_floor(row[0] * row[1], (row[0] + row[1]) * (row[0] + row[1]), 9)
  IN <<v, v + 1>>

\* np.argmax of scores known to intervals: arm k can be returned when no
\* arm before it is surely at least as high and no arm after it surely
\* higher; rows that are equal have equal scores, and the first of them wins
argmax_of_intervals(scores, params) ==
  {k \in DOMAIN scores :
     /\ \A j \in DOMAIN scores : j < k =>
          params[j] # params[k] /\ scores[k][2] > scores[j][1]
     /\ \A j \in DOMAIN scores : j > k =>
          params[j] = params[k] \/ scores[k][2] >= scores[j][1]}

\* ------------------------------------------------------------ the policies
\* thompson_sampling: samples is the vector pm.rbeta returned
thompson_sampling(estimated_beta_params, samples) == argmax(samples)

\* random: r is the value np.random.randint(0, len(params)) returned
random(estimated_beta_params, r) == r
\* a randint whose upper end is taken as inclusive
randint_inclusive(n) == 0 .. n
\* the values np.random.randint(0, n) can return
randint(n) == 0 .. (n - 1)

\* the test with its comparison turned round
naive_explores_inverted(estimated_beta_params, to_explore) ==
  \E k \in DOMAIN estimated_beta_params : row_sums(estimated_beta_params)[k] > to_explore
\* naive's test np.any(totals < number_to_explore)
naive_explores(estimated_beta_params, to_explore) ==
  \E k \in DOMAIN estimated_beta_params : row_sums(estimated_beta_params)[k] < to_explore

naive(estimated_beta_params, to_explore) ==
  IF naive_explores(estimated_beta_params, to_explore)
  THEN argmin(row_sums(estimated_beta_params))
  ELSE argmax_rat(estimated_means(estimated_beta_params))

\* the draw compared with <= in place of <
be_exporatory_or_equal(u, eps) == u * eps[2] <= eps[1] * Mille
\* be_exporatory = np.random.rand() < epsilon, u the draw in thousandths
be_exporatory(u, eps) == u * eps[2] < eps[1] * Mille

\* the arm of the best empirical mean
best_mean(estimated_beta_params) == argmax_rat(estimated_means(estimated_beta_params))

\* the loop test negated
resample_until_best(other_choice, best) == other_choice # best
\* the test of epsilon_greedy's resampling loop
resample_again(other_choice, best) == other_choice = best

\* epsilon_greedy as one call: u is the uniform draw and other the draw on
\* which the resampling loop stopped (so other differs from the best mean)
epsilon_greedy(estimated_beta_params, eps, u, other) ==
  IF be_exporatory(u, eps) THEN other ELSE best_mean(estimated_beta_params)

\* the scores of UCB, per arm, as fixed-point intervals
UCB_scores(estimated_beta_params) ==
  LET t == total_sum(estimated_beta_params)
      totals == row_sums(estimated_beta_params)
      logt == fx_log(t)
  \* ratio is np.log(t)/totals and radicand what the outer root is taken of,
  \* both in units of 10^-8
  IN [k \in DOMAIN estimated_beta_params |->
        LET mean == fx_mean(estimated_beta_params[k])
            nano == nano_variance(estimated_beta_params[k])
            variance == <<nano[1] \div Mille, nano[2] \div Mille + 1>>
            ratio == <<div_floor(logt[1], totals[k], 2), div_floor(logt[2], totals[k], 2) + 1>>
            inner == iv_add(variance,
                       <<fx_sqrt_of_fine(2 * ratio[1]), fx_sqrt_of_fine(2 * ratio[2]) + 1>>)
            capped == iv_min(inner, VarianceCap)
            radicand == iv_mul(capped, ratio)
        IN iv_widen(iv_add(mean,
             <<fx_sqrt_of_fine(radicand[1]), fx_sqrt_of_fine(radicand[2]) + 1>>))]

\* the arms UCB can return
UCB(estimated_beta_params) ==
  argmax_of_intervals(UCB_scores(estimated_beta_params), estimated_beta_params)

\* the scores of UCB_bernoulli, per arm, as fixed-point intervals
UCB_bernoulli_scores(estimated_beta_params) ==
  LET totals == row_sums(estimated_beta_params)
  IN [k \in DOMAIN estimated_beta_params |->
        LET mean == fx_mean(estimated_beta_params[k])
            ratio == iv_div(nano_variance(estimated_beta_params[k]), totals[k])
            root == <<fx_sqrt_of_nano(ratio[1]), fx_sqrt_of_nano(ratio[2]) + 1>>
            bound == <<(z95[1] * root[1]) \div z95[2], (z95[1] * root[2]) \div z95[2] + 1>>
        IN iv_widen(iv_add(mean, bound))]

\* the arms UCB_bernoulli can return
UCB_bernoulli(estimated_beta_params) ==
  argmax_of_intervals(UCB_bernoulli_scores(estimated_beta_params), estimated_beta_params)

\* ------------------------------------------------------------ state
VARIABLES
  CTRs_that_generated_data,  \* one row of the tiled matrix: the true probability of each arm
  ctr_epoch,                 \* history: the experiment for which CTRs_that_generated_data was drawn (0: at the module's load)
  experiment,                \* the main loop's i
  column,                    \* the column of regret_accumulator the running episode fills
  true_rewards,              \* the reward matrix, rows 0..num_samples-1
  regret_accumulator,
  pc,                        \* "main", "call", "loop", "returned", "IndexError", or "eps" in SpecEps
  choice_func,
  estimated_beta_params,     \* row k is (successes, failures) of arm k, at [0] and [1]
  regret,
  god_regret,
  best_bandit_idx,
  i,                         \* the round of run_bandit_dynamic_alg's loop
  this_choice,
  choices,                   \* history: the arm chosen in each round of this episode, in order
  god_cum_regret,            \* the value run_bandit_dynamic_alg returned
  eg                         \* the frame of a call of epsilon_greedy (SpecEps)

vars == <<CTRs_that_generated_data, ctr_epoch, experiment, column, true_rewards,
          regret_accumulator, pc, choice_func, estimated_beta_params, regret,
          god_regret, best_bandit_idx, i, this_choice, choices, god_cum_regret, eg>>

main_vars == <<CTRs_that_generated_data, ctr_epoch, experiment, column, true_rewards,
               regret_accumulator, choice_func>>
episode_vars == <<estimated_beta_params, regret, god_regret, best_bandit_idx, i,
                  this_choice, choices, god_cum_regret>>

NoChoice == 0 - 1
NoArray == <<>>
\* the order in which the main loop runs the policies, by column
policy_of_column == [c \in 0 .. 5 |->
  CASE c = 0 -> "random" [] c = 1 -> "naive" [] c = 2 -> "epsilon_greedy"
    [] c = 3 -> "UCB" [] c = 4 -> "UCB_bernoulli" [] OTHER -> "thompson_sampling"]

\* np.zeros(n)
zeros(n) == [r \in 0 .. (n - 1) |-> 0]
\* the vectors np.random.rand(K) can give
CtrVectors == [Arms -> CtrValues]
IdleEg == [pc |-> "idle"]

\* generate_bernoulli_bandit_data: draws is the matrix np.random.rand(num_samples, K) gave
generate_bernoulli_bandit_data(draws, ctrs) ==
  [r \in DOMAIN draws |-> [k \in DOMAIN ctrs |-> IF draws[r][k] < ctrs[k] THEN 1 ELSE 0]]

\* ------------------------------------------------------------ run_bandit_dynamic_alg
\* np.max(CTRs_that_generated_data, 0): every row of the tiled matrix is the same
bandit_distri == CTRs_that_generated_data

\* the two signs exchanged
god_regret_of_swapped(best_reward, choice_reward) ==
  IF best_reward = 1 /\ choice_reward # 1 THEN 0 - 1
  ELSE IF best_reward # 1 /\ choice_reward = 1 THEN 1
  ELSE 0
\* the realized regret of a round, from the rewards of the best and of the chosen arm
god_regret_of(best_reward, choice_reward) ==
  IF best_reward = 1 /\ choice_reward # 1 THEN 1
  ELSE IF best_reward # 1 /\ choice_reward = 1 THEN 0 - 1
  ELSE 0

\* the success and failure columns exchanged
update_ind_swapped(reward) == IF reward = 1 THEN 1 ELSE 0
\* the cell of estimated_beta_params a round updates
update_ind(reward) == IF reward = 1 THEN 0 ELSE 1

\* cum_regret returned in place of god_cum_regret
returned_cum_regret(the_regret, the_god_regret) == cumsum(the_regret)
\* what run_bandit_dynamic_alg returns
returned_value(the_regret, the_god_regret) == cumsum(the_god_regret)

\* the seeding without the line that adds prior_b
seeded_params_without_prior_b(n_arms) ==
  [k \in 0 .. (n_arms - 1) |-> [c \in 0 .. 1 |-> IF c = 0 THEN 0 + prior_a ELSE 0]]
\* np.zeros((K,2)) with prior_a added to column 0 and prior_b to column 1
seeded_params(n_arms) ==
  [k \in 0 .. (n_arms - 1) |-> [c \in 0 .. 1 |-> IF c = 0 THEN 0 + prior_a ELSE 0 + prior_b]]

\* the function is entered: the belief state is seeded, the buffers are zeroed
run_bandit_begin ==
  /\ pc = "call"
  /\ estimated_beta_params' = seeded_params(Length(true_rewards[0]))
  /\ regret' = zeros(Length(true_rewards))
  /\ god_regret' = zeros(Length(true_rewards))
  /\ best_bandit_idx' = argmax(bandit_distri)
  /\ i' = 0
  /\ this_choice' = NoChoice
  /\ choices' = <<>>
  /\ pc' = "loop"
  /\ UNCHANGED <<main_vars, god_cum_regret, eg>>

\* the body of the loop once the policy returned choice: an index outside
\* -K .. K-1 raises IndexError, a negative one counts from the end
round_body(choice) ==
  IF choice < 0 - K \/ choice >= K
  THEN /\ pc' = "IndexError"
       /\ this_choice' = choice
       /\ UNCHANGED <<main_vars, estimated_beta_params, regret, god_regret,
                      best_bandit_idx, i, choices, god_cum_regret, eg>>
  ELSE LET arm == IF choice < 0 THEN choice + K ELSE choice
           ind == update_ind(true_rewards[i][arm])
       IN /\ this_choice' = choice
          /\ estimated_beta_params' =
               [estimated_beta_params EXCEPT ![arm][ind] = @ + 1]
          /\ regret' = [regret EXCEPT
               ![i] = bandit_distri[best_bandit_idx] - CTRs_that_generated_data[arm]]
          /\ god_regret' = [god_regret EXCEPT
               ![i] = god_regret_of(true_rewards[i][best_bandit_idx], true_rewards[i][arm])]
          /\ choices' = Append(choices, arm)
          /\ i' = i + 1
          /\ UNCHANGED <<main_vars, best_bandit_idx, god_cum_regret, pc, eg>>

in_round(policy) ==
  /\ pc = "loop"
  /\ i < Length(true_rewards)
  /\ choice_func = policy

round_random ==
  /\ in_round("random")
  /\ \E r \in randint(Length(estimated_beta_params)) :
       round_body(random(estimated_beta_params, r))

round_naive ==
  /\ in_round("naive")
  /\ round_body(naive(estimated_beta_params, number_to_explore))

\* the resampling loop ends on a draw other than the best mean
round_epsilon_greedy ==
  /\ in_round("epsilon_greedy")
  /\ \E u \in EpsilonDraws, other \in randint(Length(estimated_beta_params)) :
       /\ be_exporatory(u, epsilon) => ~resample_again(other, best_mean(estimated_beta_params))
       /\ round_body(epsilon_greedy(estimated_beta_params, epsilon, u, other))

round_UCB ==
  /\ in_round("UCB")
  /\ \E arm \in UCB(estimated_beta_params) : round_body(arm)

round_UCB_bernoulli ==
  /\ in_round("UCB_bernoulli")
  /\ \E arm \in UCB_bernoulli(estimated_beta_params) : round_body(arm)

round_thompson_sampling ==
  /\ in_round("thompson_sampling")
  /\ \E samples \in [Arms -> BetaSamples] :
       round_body(thompson_sampling(estimated_beta_params, samples))

run_bandit_return ==
  /\ pc = "loop"
  /\ i = Length(true_rewards)
  /\ god_cum_regret' = returned_value(regret, god_regret)
  /\ pc' = "returned"
  /\ UNCHANGED <<main_vars, estimated_beta_params, regret, god_regret,
                 best_bandit_idx, i, this_choice, choices, eg>>

\* ------------------------------------------------------------ main code
\* one iteration of the main loop begins: the rewards are generated and the
\* first policy is called
main_generate ==
  /\ pc = "main"
  /\ experiment < number_experiments
  /\ \E draws \in [0 .. (num_samples - 1) -> [Arms -> RewardDraws]] :
       true_rewards' = generate_bernoulli_bandit_data(draws, CTRs_that_generated_data)
  /\ column' = 0
  /\ choice_func' = policy_of_column[0]
  /\ pc' = "call"
  /\ UNCHANGED <<CTRs_that_generated_data, ctr_epoch, experiment, regret_accumulator,
                 episode_vars, eg>>

episode_idle ==
  /\ estimated_beta_params = NoArray
  /\ regret = NoArray
  /\ god_regret = NoArray
  /\ best_bandit_idx = NoChoice
  /\ i = 0
  /\ this_choice = NoChoice
  /\ choices = <<>>
  /\ god_cum_regret = NoArray

\* regret_accumulator[:, column] += the returned value, whose frame is gone;
\* then the next policy, or the next experiment
main_accumulate ==
  /\ pc = "returned"
  /\ regret_accumulator' =
       [r \in DOMAIN regret_accumulator |->
          [regret_accumulator[r] EXCEPT ![column] = @ + god_cum_regret[r]]]
  /\ IF column < 5
     THEN /\ column' = column + 1
          /\ choice_func' = policy_of_column[column + 1]
          /\ pc' = "call"
          /\ UNCHANGED experiment
     ELSE /\ experiment' = experiment + 1
          /\ pc' = "main"
          /\ UNCHANGED <<column, choice_func>>
  /\ estimated_beta_params' = NoArray
  /\ regret' = NoArray
  /\ god_regret' = NoArray
  /\ best_bandit_idx' = NoChoice
  /\ i' = 0
  /\ this_choice' = NoChoice
  /\ choices' = <<>>
  /\ god_cum_regret' = NoArray
  /\ UNCHANGED <<CTRs_that_generated_data, ctr_epoch, true_rewards, eg>>

\* the module is loaded: the arm probabilities are drawn, the accumulator is zero
Init ==
  /\ CTRs_that_generated_data \in CtrVectors
  /\ ctr_epoch = 0
  /\ experiment = 0
  /\ column = 0
  /\ true_rewards = NoArray
  /\ regret_accumulator = [r \in 0 .. (num_samples - 1) |-> [c \in 0 .. 5 |-> 0]]
  /\ pc = "main"
  /\ choice_func = policy_of_column[0]
  /\ episode_idle
  /\ eg = IdleEg

rounds ==
  \/ round_random
  \/ round_naive
  \/ round_epsilon_greedy
  \/ round_UCB
  \/ round_UCB_bernoulli
  \/ round_thompson_sampling

Next ==
  \/ main_generate
  \/ run_bandit_begin
  \/ rounds
  \/ run_bandit_return
  \/ main_accumulate

Spec == Init /\ [][Next]_vars

\* ------------------------------------------------------------ one episode
\* run_bandit_dynamic_alg is called with any probabilities, any reward matrix
\* of EpisodeRounds rows and any of the six policies
InitEpisode ==
  /\ CTRs_that_generated_data \in CtrVectors
  /\ ctr_epoch = 0
  /\ experiment = 0
  /\ column \in 0 .. 5
  /\ choice_func = policy_of_column[column]
  /\ \E draws \in [0 .. (EpisodeRounds - 1) -> [Arms -> RewardDraws]] :
       true_rewards = generate_bernoulli_bandit_data(draws, CTRs_that_generated_data)
  /\ regret_accumulator = [r \in 0 .. (EpisodeRounds - 1) |-> [c \in 0 .. 5 |-> 0]]
  /\ pc = "call"
  /\ episode_idle
  /\ eg = IdleEg

NextEpisode ==
  \/ run_bandit_begin
  \/ rounds
  \/ run_bandit_return

SpecEpisode == InitEpisode /\ [][NextEpisode]_vars

\* ------------------------------------------------------------ a long naive episode
\* enough rounds for naive to finish exploring, and NaiveExtra more
NaiveRounds == (number_to_explore - prior_a - prior_b) * K + NaiveExtra

\* the reward matrices whose rows repeat with period NaivePeriod
PeriodicRewards ==
  {[r \in 0 .. (NaiveRounds - 1) |-> pattern[r % NaivePeriod]] :
     pattern \in [0 .. (NaivePeriod - 1) -> [Arms -> {0, 1}]]}

InitNaive ==
  /\ CTRs_that_generated_data \in CtrVectors
  /\ ctr_epoch = 0
  /\ experiment = 0
  /\ column = 1
  /\ choice_func = policy_of_column[1]
  /\ true_rewards \in PeriodicRewards
  /\ regret_accumulator = [r \in 0 .. (NaiveRounds - 1) |-> [c \in 0 .. 5 |-> 0]]
  /\ pc = "call"
  /\ episode_idle
  /\ eg = IdleEg

NextNaive ==
  \/ run_bandit_begin
  \/ round_naive
  \/ run_bandit_return

SpecNaive == InitNaive /\ [][NextNaive]_vars

\* ------------------------------------------------------------ a call of epsilon_greedy, step by step
\* the belief states of n arms with entries 1 .. MaxCountEps
BeliefStates(n) == [0 .. (n - 1) -> [0 .. 1 -> 1 .. MaxCountEps]]

eg_others == <<main_vars, pc, episode_vars>>

\* lines 45-49 and 56: the best mean is found and the uniform draw decides
\* whether to explore; if not, the best mean is returned
eg_decide ==
  /\ eg.pc = "start"
  /\ \E u \in EpsilonDraws :
       eg' = [eg EXCEPT
                !.best = best_mean(eg.params),
                !.u = u,
                !.pc = IF be_exporatory(u, eg.eps) THEN "draw" ELSE "ret",
                !.ret = IF be_exporatory(u, eg.eps) THEN NoChoice ELSE best_mean(eg.params)]
  /\ UNCHANGED eg_others

\* line 51: the first draw of other_choice
eg_draw ==
  /\ eg.pc = "draw"
  /\ \E r \in randint(Length(eg.params)) : eg' = [eg EXCEPT !.other = r, !.pc = "while"]
  /\ UNCHANGED eg_others

\* lines 52-53: other_choice equals the best mean and is drawn again
eg_resample ==
  /\ eg.pc = "while"
  /\ resample_again(eg.other, eg.best)
  /\ \E r \in randint(Length(eg.params)) : eg' = [eg EXCEPT !.other = r, !.resampled = TRUE]
  /\ UNCHANGED eg_others

\* line 54: the loop has ended and other_choice is returned
eg_return_other ==
  /\ eg.pc = "while"
  /\ ~resample_again(eg.other, eg.best)
  /\ eg' = [eg EXCEPT !.ret = eg.other, !.pc = "ret"]
  /\ UNCHANGED eg_others

InitEps ==
  /\ CTRs_that_generated_data = NoArray
  /\ ctr_epoch = 0
  /\ experiment = 0
  /\ column = 2
  /\ choice_func = policy_of_column[2]
  /\ true_rewards = NoArray
  /\ regret_accumulator = NoArray
  /\ pc = "eps"
  /\ episode_idle
  /\ \E n \in 1 .. MaxArmsEps :
       \E params \in BeliefStates(n), e \in EpsilonArgs :
         eg = [pc |-> "start", params |-> params, eps |-> e, u |-> NoChoice,
               best |-> NoChoice, other |-> NoChoice, resampled |-> FALSE,
               ret |-> NoChoice]

NextEps ==
  \/ eg_decide
  \/ eg_draw
  \/ eg_resample
  \/ eg_return_other

\* a draw of np.random.randint that is possible is not avoided for ever
SpecEps == InitEps /\ [][NextEps]_vars /\ WF_vars(NextEps)

\* ------------------------------------------------------------ the claims
\* the rounds of the running episode in which arm k was chosen
PullsOf(k) == Cardinality({r \in 1 .. Len(choices) : choices[r] = k})

\* the arm of highest true probability, the lowest index among equals
ClaimBestArm ==
  CHOOSE k \in Arms :
    /\ \A j \in Arms : CTRs_that_generated_data[j] <= CTRs_that_generated_data[k]
    /\ \A j \in Arms : j < k => CTRs_that_generated_data[j] < CTRs_that_generated_data[k]

\* the arm of highest successes/total, the lowest index among equals
ClaimBestMean(params) ==
  CHOOSE k \in DOMAIN params :
    /\ \A j \in DOMAIN params :
         params[j][0] * (params[k][0] + params[k][1]) <= params[k][0] * (params[j][0] + params[j][1])
    /\ \A j \in DOMAIN params : j < k =>
         params[j][0] * (params[k][0] + params[k][1]) < params[k][0] * (params[j][0] + params[j][1])

\* the least-pulled arm, the lowest index among equals
ClaimLeastPulled ==
  CHOOSE k \in Arms :
    /\ \A j \in Arms : PullsOf(k) <= PullsOf(j)
    /\ \A j \in Arms : j < k => PullsOf(k) < PullsOf(j)

\* the signal the spec gives round r: +1, -1 or 0
ClaimSignal(r) ==
  LET best_reward == true_rewards[r][ClaimBestArm]
      choice_reward == true_rewards[r][choices[r + 1]]
  IN IF best_reward = 1 /\ choice_reward = 0 THEN 1
     ELSE IF best_reward = 0 /\ choice_reward = 1 THEN 0 - 1
     ELSE 0

InEpisode == pc \in {"loop", "returned"}

\* C1: before the first round and after every round, both entries of every
\* arm's belief row are at least 1 and their sum is the number of rounds in
\* which the arm was chosen, plus 2; so every row total is at least 2.
C1_BeliefRows ==
  InEpisode =>
    \A k \in Arms :
      /\ estimated_beta_params[k][0] >= 1
      /\ estimated_beta_params[k][1] >= 1
      /\ estimated_beta_params[k][0] + estimated_beta_params[k][1] = PullsOf(k) + 2
      /\ row_sums(estimated_beta_params)[k] >= 2

C1_Witness ==
  /\ pc = "loop"
  /\ i = EpisodeRounds
  /\ \E k \in Arms : PullsOf(k) = EpisodeRounds /\ estimated_beta_params[k][1] = 1 + EpisodeRounds

\* C2: in every round the realized regret is +1 when the best arm's reward is
\* 1 and the chosen arm's is 0, -1 when the best arm's is 0 and the chosen
\* arm's is 1, and 0 otherwise; it is 0 when the chosen arm is the best arm.
C2_RealizedRegret ==
  InEpisode =>
    \A r \in 0 .. (i - 1) :
      /\ god_regret[r] = ClaimSignal(r)
      /\ choices[r + 1] = ClaimBestArm => god_regret[r] = 0

C2_Witness ==
  /\ pc = "returned"
  /\ god_regret[0] = 1
  /\ god_regret[1] = 0 - 1

\* C3: naive returns the least-pulled arm (lowest index among equals) whenever
\* some arm was chosen in fewer than 100 rounds, and the arm of the highest
\* successes/total only when every arm was chosen in at least 100 rounds.
C3_NaiveBudgetCountsPulls ==
  (pc = "loop" /\ i < Length(true_rewards)) =>
    LET arm == naive(estimated_beta_params, number_to_explore)
    IN IF \E k \in Arms : PullsOf(k) < number_to_explore
       THEN arm = ClaimLeastPulled
       ELSE arm = ClaimBestMean(estimated_beta_params)

\* C4: the arm probabilities in force during an experiment were drawn for
\* that experiment.
C4_FreshPerExperiment ==
  pc \in {"call", "loop", "returned"} => ctr_epoch = experiment

\* C5: in an episode of the naive policy, a round that takes the exploit
\* branch is followed only by rounds that take the exploit branch.
C5_NaiveNeverExploresAgain ==
  [][(/\ pc = "loop"
      /\ i' = i + 1
      /\ ~naive_explores(estimated_beta_params, number_to_explore))
     => ~naive_explores(estimated_beta_params', number_to_explore)]_vars

C5_Witness ==
  /\ pc = "returned"
  /\ ~naive_explores(estimated_beta_params, number_to_explore)
  /\ \E k \in Arms : row_sums(estimated_beta_params)[k] >= number_to_explore + NaiveExtra

\* C6: epsilon_greedy returns the best-mean arm exactly when its uniform draw
\* is not below epsilon; when it explores it returns another arm; with
\* epsilon = 0 it returns the best-mean arm whatever the draw.
C6_EpsilonGreedyReturn ==
  eg.pc = "ret" =>
    LET below == eg.u * eg.eps[2] < eg.eps[1] * 1000
        best == ClaimBestMean(eg.params)
    IN /\ (eg.ret = best) <=> ~below
       /\ below => eg.ret # best
       /\ eg.eps[1] = 0 => eg.ret = best

C6_Witness ==
  /\ eg.pc = "ret"
  /\ eg.u * eg.eps[2] < eg.eps[1] * 1000
  /\ eg.ret # ClaimBestMean(eg.params)
  /\ eg.ret = Length(eg.params) - 1

\* C7: a round adds 1 to one cell of the belief state, the chosen arm's
\* success entry when its reward in that round is 1 and its failure entry
\* otherwise, and leaves every other cell, the reward matrix and the true
\* probabilities as they were.
C7_OneCellPerRound ==
  [][i' = i + 1 =>
       LET cell == IF true_rewards[i][this_choice'] = 1 THEN 0 ELSE 1
       IN /\ \A k \in Arms : \A c \in 0 .. 1 :
               estimated_beta_params'[k][c] =
                 estimated_beta_params[k][c] + (IF k = this_choice' /\ c = cell THEN 1 ELSE 0)
          /\ true_rewards' = true_rewards
          /\ CTRs_that_generated_data' = CTRs_that_generated_data]_vars

C7_Witness ==
  /\ pc = "loop"
  /\ i = 2
  /\ estimated_beta_params[0][0] = 2
  /\ estimated_beta_params[1][1] = 2

\* the sum of the realized regrets of rounds 0 .. n
RECURSIVE ClaimRunningSum(_)
ClaimRunningSum(n) == IF n < 0 THEN 0 ELSE god_regret[n] + ClaimRunningSum(n - 1)

\* C8: the returned sequence has one entry per round, entry n is the sum of
\* the realized regrets of rounds 0 .. n, entry 0 is the regret of round 0
\* and consecutive entries differ by -1, 0 or 1.
C8_ReturnedRunningSum ==
  pc = "returned" =>
    /\ DOMAIN god_cum_regret = 0 .. (Length(true_rewards) - 1)
    /\ \A n \in DOMAIN god_cum_regret : god_cum_regret[n] = ClaimRunningSum(n)
    /\ god_cum_regret[0] = ClaimSignal(0)
    /\ \A n \in DOMAIN god_cum_regret : n >= 1 =>
         god_cum_regret[n] - god_cum_regret[n - 1] \in {0 - 1, 0, 1}

C8_Witness ==
  /\ pc = "returned"
  /\ god_cum_regret[0] = 1
  /\ god_cum_regret[Length(true_rewards) - 1] = 0
  /\ regret[0] > 0

\* C9: whichever of the six policies runs, every arm it returns is in
\* 0 .. K-1, and no round indexes outside the matrices.
C9_ChoiceInRange ==
  /\ pc # "IndexError"
  /\ this_choice # NoChoice => this_choice \in 0 .. (K - 1)
  /\ \A r \in 1 .. Len(choices) : choices[r] \in 0 .. (K - 1)

C9_Witness ==
  /\ pc = "returned"
  /\ choice_func = "UCB"
  /\ this_choice = K - 1

\* C10: with two arms or more a call of epsilon_greedy returns; with one arm
\* a call that explores does not return.
C10_ResamplingLoop ==
  /\ [](Length(eg.params) >= 2 => <>(eg.pc = "ret"))
  /\ [](Length(eg.params) = 1 /\ eg.pc = "ret" => ~(eg.u * eg.eps[2] < eg.eps[1] * 1000))

C10_Witness ==
  /\ eg.pc = "ret"
  /\ eg.resampled
  /\ Length(eg.params) >= 2

====
